---- MODULE Spec2Model ----
(***************************************************************************)
(* Model of the Telegram D&D bot (src/bot.py): the persistence tables, the *)
(* GameEngine operations and the Telegram handlers that drive them.        *)
(*                                                                         *)
(* Text is a sequence of characters.  A character is a one-element TLA+    *)
(* string; a Cyrillic letter is written as "c" followed by its Latin       *)
(* transliteration ("cP" is Cyrillic П, "cp" is п), so that Cyrillic and   *)
(* Latin letters stay distinct, as they are for Python's str.              *)
(***************************************************************************)
EXTENDS Integers, Sequences, FiniteSets, TLC

\* ------------------------------------------------------------------------
\* Bounds of the model
\* ------------------------------------------------------------------------
MaxItems == 4
MaxExperience == 100
MaxGold == 70
MaxLevel == 9

Users == {1}
\* Python None; a record, so that it compares with the records of the model
None == [none |-> TRUE]

\* ------------------------------------------------------------------------
\* Characters and strings (Python str, re character classes)
\* ------------------------------------------------------------------------
Digits == <<"0", "1", "2", "3", "4", "5", "6", "7", "8", "9">>

IsDigit(c) == \E i \in 1..10 : Digits[i] = c

DigitVal(c) == (CHOOSE i \in 1..10 : Digits[i] = c) - 1

IsSpace(c) == c \in {" ", "\n", "\t"}

Punct == {"|", ":", ".", ",", "!", "?", "-", "{", "}"}

IsWord(c) == ~IsSpace(c) /\ c \notin Punct

\* Upper-case letters (Latin, then Cyrillic) and their lower-case forms
UpperChars ==
    <<"A", "B", "C", "D", "E", "F", "G", "H", "I", "J", "K", "L", "M",
      "N", "O", "P", "Q", "R", "S", "T", "U", "V", "W", "X", "Y", "Z",
      "cA", "cB", "cV", "cG", "cD", "cE", "cZH", "cZ", "cI", "cJ",
      "cK", "cL", "cM", "cN", "cO", "cP", "cR", "cS", "cT", "cU", "cF",
      "cH", "cC", "cCH", "cSH", "cSCH", "cQ", "cY", "cX", "cE2", "cYU",
      "cYA", "cYO">>

LowerChars ==
    <<"a", "b", "c", "d", "e", "f", "g", "h", "i", "j", "k", "l", "m",
      "n", "o", "p", "q", "r", "s", "t", "u", "v", "w", "x", "y", "z",
      "ca", "cb", "cv", "cg", "cd", "ce", "czh", "cz", "ci", "cj",
      "ck", "cl", "cm", "cn", "co", "cp", "cr", "cs", "ct", "cu", "cf",
      "ch", "cc", "cch", "csh", "csch", "cq", "cy", "cx", "ce2", "cyu",
      "cya", "cyo">>

LowerChar(c) ==
    IF \E i \in 1..Len(UpperChars) : UpperChars[i] = c
    THEN LowerChars[CHOOSE i \in 1..Len(UpperChars) : UpperChars[i] = c]
    ELSE c

\* str.lower()
Lower(s) == [i \in 1..Len(s) |-> LowerChar(s[i])]

\* pat occurs in s at position i
OccursAt(pat, s, i) ==
    /\ i >= 1
    /\ i + Len(pat) - 1 <= Len(s)
    /\ \A k \in 1..Len(pat) : s[i + k - 1] = pat[k]

\* `pat in s`
Contains(s, pat) == \E i \in 1..(Len(s) + 1) : OccursAt(pat, s, i)

\* first position >= i whose character is not whitespace (Len(s)+1 if none)
RECURSIVE SkipSpace(_, _)
SkipSpace(s, i) ==
    IF i <= Len(s) /\ IsSpace(s[i]) THEN SkipSpace(s, i + 1) ELSE i

\* first position >= i whose character is not a digit
RECURSIVE SkipDigits(_, _)
SkipDigits(s, i) ==
    IF i <= Len(s) /\ IsDigit(s[i]) THEN SkipDigits(s, i + 1) ELSE i

\* first position >= i whose character is not a word character
RECURSIVE SkipWord(_, _)
SkipWord(s, i) ==
    IF i <= Len(s) /\ IsWord(s[i]) THEN SkipWord(s, i + 1) ELSE i

\* first position >= i holding c (Len(s)+1 if none)
RECURSIVE FindChar(_, _, _)
FindChar(s, c, i) ==
    IF i <= Len(s) /\ s[i] # c THEN FindChar(s, c, i + 1) ELSE i

\* str.strip()
RECURSIVE StripLeft(_)
StripLeft(s) ==
    IF s # << >> /\ IsSpace(Head(s)) THEN StripLeft(Tail(s)) ELSE s

RECURSIVE StripRight(_)
StripRight(s) ==
    IF s # << >> /\ IsSpace(s[Len(s)])
    THEN StripRight(SubSeq(s, 1, Len(s) - 1)) ELSE s

Strip(s) == StripRight(StripLeft(s))

\* int() of a string of decimal digits
RECURSIVE ParseInt(_)
ParseInt(s) ==
    IF s = << >> THEN 0
    ELSE 10 * ParseInt(SubSeq(s, 1, Len(s) - 1)) + DigitVal(s[Len(s)])

\* re.search(r'(\d+)', s) finds a match
HasInt(s) == \E i \in 1..Len(s) : IsDigit(s[i])

\* int(match.group(1)): the first maximal run of digits of s
FirstInt(s) ==
    LET i == CHOOSE k \in 1..Len(s) :
                 IsDigit(s[k]) /\ \A m \in 1..(k - 1) : ~IsDigit(s[m])
    IN  ParseInt(SubSeq(s, i, SkipDigits(s, i) - 1))

\* ------------------------------------------------------------------------
\* String literals of the source
\* ------------------------------------------------------------------------
\* "ПОКУПКА:"
PURCHASE_LABEL == <<"cP", "cO", "cK", "cU", "cP", "cK", "cA", ":">>
\* "ВРАГ:"
ENEMY_MARKER == <<"cV", "cR", "cA", "cG", ":">>
\* "враг"
ENEMY_WORD == <<"cv", "cr", "ca", "cg">>
\* ["нападает", "атакует", "бросается", "выскакивает"]
AGGRESSION_VERBS ==
    { <<"cn", "ca", "cp", "ca", "cd", "ca", "ce", "ct">>,
      <<"ca", "ct", "ca", "ck", "cu", "ce", "ct">>,
      <<"cb", "cr", "co", "cs", "ca", "ce", "ct", "cs", "cya">>,
      <<"cv", "cy", "cs", "ck", "ca", "ck", "ci", "cv", "ca", "ce", "ct">> }
\* 'урон', 'damage'
KW_DAMAGE == { <<"cu", "cr", "co", "cn">>, <<"d", "a", "m", "a", "g", "e">> }
\* 'броня', 'armor'
KW_ARMOR == { <<"cb", "cr", "co", "cn", "cya">>, <<"a", "r", "m", "o", "r">> }
\* 'лечение', 'heal', 'hp'
KW_HEAL == { <<"cl", "ce", "cch", "ce", "cn", "ci", "ce">>,
             <<"h", "e", "a", "l">>, <<"h", "p">> }
\* "крит", "точно"
KW_CRITICAL == { <<"ck", "cr", "ci", "ct">>, <<"ct", "co", "cch", "cn", "co">> }

\* ------------------------------------------------------------------------
\* Purchase-offer extraction (process_action, the purchase regex)
\* ------------------------------------------------------------------------
\* End of the line that position i lies on: first "\n" at or after i
LineEnd(s, i) == FindChar(s, "\n", i)

\* Positions of one attempt to match
\*   ПОКУПКА:\s*([^|]+)\|\s*(\d+)\|\s*(\w+)\|\s*(.+)
\* with the label at position i.  a: after the label; p1: the first pipe;
\* b..c: the digits; d..e: the word; f: start of the last group.
PurchasePositions(s, i) ==
    LET a  == i + Len(PURCHASE_LABEL)
        p1 == FindChar(s, "|", a)
        b  == SkipSpace(s, p1 + 1)
        c  == SkipDigits(s, b)
        d  == SkipSpace(s, c + 1)
        e  == SkipWord(s, d)
        f  == SkipSpace(s, e + 1)
    IN  [a |-> a, p1 |-> p1, b |-> b, c |-> c, d |-> d, e |-> e, f |-> f]

\* Start of group 4 (.+): the first non-space character after \s*, or, when
\* only whitespace follows, the last character that is not a newline (\s*
\* backtracks until .+ can take one character).  0 when there is none.
Group4Start(s, e, f) ==
    IF f <= Len(s) THEN f
    ELSE IF \E q \in (e + 1)..Len(s) : s[q] # "\n"
         THEN CHOOSE q \in (e + 1)..Len(s) :
                  s[q] # "\n" /\ \A r \in (q + 1)..Len(s) : s[r] = "\n"
         ELSE 0

\* The attempt with positions m succeeds: every group is non-empty and
\* the second and third are directly followed by a pipe
PositionsMatch(s, m) ==
    /\ m.p1 <= Len(s)
    /\ m.p1 > m.a
    /\ m.c > m.b
    /\ m.c <= Len(s)
    /\ s[m.c] = "|"
    /\ m.e > m.d
    /\ m.e <= Len(s)
    /\ s[m.e] = "|"
    /\ Group4Start(s, m.e, m.f) # 0

\* The regex matches with the label at position i
PurchaseMatchesAt(s, i) ==
    /\ OccursAt(PURCHASE_LABEL, s, i)
    /\ PositionsMatch(s, PurchasePositions(s, i))

\* Group 1 ([^|]+) of the match at i: \s* takes the leading whitespace
\* unless nothing else precedes the pipe
Group1(s, a, p1) ==
    LET t == SkipSpace(s, a)
    IN  IF t < p1 THEN SubSeq(s, t, p1 - 1) ELSE SubSeq(s, p1 - 1, p1 - 1)

\* re.search(...): the groups of the leftmost match, None when no match
purchase_match(s) ==
    IF \E i \in 1..Len(s) : PurchaseMatchesAt(s, i)
    THEN LET Groups(m, g4) ==
                 [g1 |-> Group1(s, m.a, m.p1),
                  g2 |-> SubSeq(s, m.b, m.c - 1),
                  g3 |-> SubSeq(s, m.d, m.e - 1),
                  g4 |-> SubSeq(s, g4, LineEnd(s, g4) - 1)]
             GroupsOf(m) == Groups(m, Group4Start(s, m.e, m.f))
             i == CHOOSE k \in 1..Len(s) :
                      /\ PurchaseMatchesAt(s, k)
                      /\ \A j \in 1..(k - 1) : ~PurchaseMatchesAt(s, j)
         IN  GroupsOf(PurchasePositions(s, i))
    ELSE None

\* `'a' in s.lower() or 'b' in s.lower()` for a keyword family
HasKeyword(s, family) ==
    \E lowered \in {Lower(s)} : \E kw \in family : Contains(lowered, kw)

\* ------------------------------------------------------------------------
\* Domain model (Character, Item, Enemy) and the literals of the engine
\* ------------------------------------------------------------------------
Max(a, b) == IF a >= b THEN a ELSE b

\* "Начальная деревня"
START_LOCATION ==
    <<"cN", "ca", "cch", "ca", "cl", "cx", "cn", "ca", "cya", " ",
      "cd", "ce", "cr", "ce", "cv", "cn", "cya">>

\* Character(user_id=user_id, name=name) with the dataclass defaults
NewCharacter(user_id, name) ==
    [user_id |-> user_id, name |-> name, level |-> 1, hp |-> 100,
     max_hp |-> 100, armor |-> 5, strength |-> 10, agility |-> 10,
     intelligence |-> 10, experience |-> 0, gold |-> 50,
     current_location |-> START_LOCATION, location_state |-> << >>,
     equipped_weapon |-> << >>, equipped_armor |-> << >>]

\* Item(name, type, damage=0, armor_bonus=0, heal=0, description="")
Item(name, type, damage, armor_bonus, heal, description) ==
    [name |-> name, type |-> type, damage |-> damage,
     armor_bonus |-> armor_bonus, heal |-> heal,
     description |-> description]

\* The three starter items of create_character:
\* "Ржавый меч"/"Старый меч", "Кожаная броня"/"Простая броня",
\* "Зелье лечения"/"Восстанавливает 30 HP"
StarterItems ==
    << Item(<<"cR", "czh", "ca", "cv", "cy", "cj", " ", "cm", "ce", "cch">>,
            <<"w", "e", "a", "p", "o", "n">>, 5, 0, 0,
            <<"cS", "ct", "ca", "cr", "cy", "cj", " ", "cm", "ce", "cch">>),
       Item(<<"cK", "co", "czh", "ca", "cn", "ca", "cya", " ",
              "cb", "cr", "co", "cn", "cya">>,
            <<"a", "r", "m", "o", "r">>, 0, 3, 0,
            <<"cP", "cr", "co", "cs", "ct", "ca", "cya", " ",
              "cb", "cr", "co", "cn", "cya">>),
       Item(<<"cZ", "ce", "cl", "cx", "ce", " ",
              "cl", "ce", "cch", "ce", "cn", "ci", "cya">>,
            <<"p", "o", "t", "i", "o", "n">>, 0, 0, 30,
            <<"cV", "co", "cs", "cs", "ct", "ca", "cn", "ca", "cv", "cl",
              "ci", "cv", "ca", "ce", "ct", " ", "3", "0", " ", "H", "P">>) >>

\* dict.get(key, default) on a parsed JSON object (a function on its keys)
Get(dict, key, default) ==
    IF key \in DOMAIN dict THEN dict[key] ELSE default

\* ------------------------------------------------------------------------
\* AIGenerator.  The reply of the text service is an input of the model; a
\* reply that holds no parsable JSON object is NoJson, one that does is the
\* parsed object, a function from its keys to their values.
\* ------------------------------------------------------------------------
NoJson == [no_json |-> TRUE]

\* "Дикий волк"
WOLF_NAME == <<"cD", "ci", "ck", "ci", "cj", " ", "cv", "co", "cl", "ck">>
\* "Неизвестный враг"
UNKNOWN_ENEMY == <<"cN", "ce", "ci", "cz", "cv", "ce", "cs", "ct", "cn",
                   "cy", "cj", " ", "cv", "cr", "ca", "cg">>
\* "Удар достигает цели!"
HIT_DESCRIPTION == <<"cU", "cd", "ca", "cr", " ", "cd", "co", "cs", "ct",
                     "ci", "cg", "ca", "ce", "ct", " ", "cc", "ce", "cl",
                     "ci", "!">>

\* generate_enemy: the parsed object with defaults, or the level-scaled wolf
generate_enemy(level, response) ==
    IF response # NoJson
    THEN [name   |-> Get(response, "name", UNKNOWN_ENEMY),
          hp     |-> Get(response, "hp", 50),
          armor  |-> Get(response, "armor", 5),
          damage |-> Get(response, "damage", 10)]
    ELSE [name   |-> WOLF_NAME,
          hp     |-> 50 + level * 20,
          armor  |-> level * 3,
          damage |-> 5 + level * 3]

\* round(x / 10) in place of int(x / 10): halves are rounded up
RoundDiv10(x) ==
    IF x >= 0 THEN (x + 5) \div 10 ELSE -((-x + 5) \div 10)

\* int(x / 10) for the exact quotient x / 10: truncation towards zero
TruncDiv10(x) == IF x >= 0 THEN x \div 10 ELSE -((-x) \div 10)

\* "крит" in action.lower() or "точно" in action.lower()
IsCritical(action) == HasKeyword(action, KW_CRITICAL)

\* int(base_damage * (1.5 if critical else 1) - enemy.armor * 0.3), in
\* tenths: base * 15 (or 10) - armor * 3, truncated as int() truncates
FallbackDamageRaw(strength, agility, armor, critical) ==
    LET base_damage == strength + (agility \div 2)
    IN  TruncDiv10(base_damage * (IF critical THEN 15 ELSE 10) - armor * 3)

\* the fallback judgement of calculate_damage
FallbackDamage(strength, agility, armor, critical) ==
    Max(1, FallbackDamageRaw(strength, agility, armor, critical))

\* calculate_damage: the parsed object as it is, or the fallback judgement
calculate_damage(action, char, enemy, response) ==
    IF response # NoJson
    THEN response
    ELSE [damage      |-> FallbackDamage(char.strength, char.agility,
                                         enemy.armor, IsCritical(action)),
          critical    |-> IsCritical(action),
          description |-> HIT_DESCRIPTION]

\* ------------------------------------------------------------------------
\* GameEngine.process_action: purchase and encounter interpretation
\* ------------------------------------------------------------------------
\* a parser that takes every text holding the label for an offer: the name
\* is what follows the label up to the first pipe, the price the first
\* integer of the text (0 without one)
ParseOffer_LabelOnly(result_text) ==
    IF ~Contains(result_text, PURCHASE_LABEL) THEN None
    ELSE LET i == CHOOSE k \in 1..Len(result_text) :
                      OccursAt(PURCHASE_LABEL, result_text, k)
             a == i + Len(PURCHASE_LABEL)
             rest == SubSeq(result_text, a, Len(result_text))
         IN  [item_name |-> Strip(SubSeq(result_text, a,
                                         FindChar(result_text, "|", a) - 1)),
              price     |-> IF HasInt(rest) THEN FirstInt(rest) ELSE 0,
              item_type |-> << >>,
              stats     |-> Strip(rest)]

\* the groups of the purchase line: item_name, price, item_type, stats
ParseOffer(result_text) ==
    LET Fields(m) ==
            IF m = None THEN None
            ELSE [item_name |-> Strip(m.g1),
                  price     |-> ParseInt(m.g2),
                  item_type |-> Strip(m.g3),
                  stats     |-> Strip(m.g4)]
    IN  Fields(purchase_match(result_text))

\* the funds test left out: every offer is bought
CanAfford_Always(gold, price) == TRUE

\* if char.gold >= price
CanAfford(gold, price) == gold >= price

\* one of the three keyword tests: the first integer of the stats text when
\* a keyword of the family occurs in it, else 0
StatValue(stats, family) ==
    IF HasKeyword(stats, family) /\ HasInt(stats)
    THEN FirstInt(stats)
    ELSE 0

\* new_item = Item(name=item_name, type=item_type, ..., description=stats)
PurchasedItem(offer) ==
    Item(offer.item_name, offer.item_type,
         StatValue(offer.stats, KW_DAMAGE),
         StatValue(offer.stats, KW_ARMOR),
         StatValue(offer.stats, KW_HEAL),
         offer.stats)

\* every text taken for an encounter
has_enemy_AnyText(result_text) == TRUE

\* has_enemy of process_action: the marker, or the word with a verb
has_enemy(result_text) ==
    \/ Contains(result_text, ENEMY_MARKER)
    \/ /\ Contains(Lower(result_text), ENEMY_WORD)
       /\ \E word \in AGGRESSION_VERBS : Contains(Lower(result_text), word)

\* has_enemy of explore and of the new_location button: the marker only
location_has_enemy(location_desc) == Contains(location_desc, ENEMY_MARKER)

\* process_action on the character read from the table and the generated
\* text.  saved: save_character was called with char; items: the items
\* passed to add_item; ret: the returned dictionary.
process_action(char, result_text) ==
    LET Outcome(offer) ==
            LET buys == offer # None /\ CanAfford(char.gold, offer.price)
                paid == [char EXCEPT !.gold = char.gold - offer.price]
            IN  [char  |-> IF buys THEN paid ELSE char,
                 saved |-> buys,
                 items |-> IF buys THEN << PurchasedItem(offer) >>
                           ELSE << >>,
                 ret   |->
                     [text      |-> result_text,
                      has_enemy |-> has_enemy(result_text),
                      purchase  |->
                          IF offer = None THEN None
                          ELSE IF buys
                          THEN [success |-> TRUE, item |-> offer.item_name,
                                price |-> offer.price,
                                gold_left |-> paid.gold]
                          ELSE [success |-> FALSE, item |-> offer.item_name,
                                price |-> offer.price,
                                gold_needed |-> offer.price - char.gold]]]
    IN  Outcome(ParseOffer(result_text))

\* ------------------------------------------------------------------------
\* GameEngine.start_battle and GameEngine.process_attack
\* ------------------------------------------------------------------------
\* rewards taken from the generated stats instead of the level
start_battle_GeneratorReward(char, response) ==
    LET enemy_data == generate_enemy(char.level, response)
    IN  [name              |-> enemy_data.name,
         hp                |-> enemy_data.hp,
         max_hp            |-> enemy_data.hp,
         armor             |-> enemy_data.armor,
         damage            |-> enemy_data.damage,
         experience_reward |-> enemy_data.hp,
         gold_reward       |-> enemy_data.damage]

\* the Enemy built by start_battle from the generated enemy data
start_battle(char, response) ==
    LET enemy_data == generate_enemy(char.level, response)
    IN  [name              |-> enemy_data.name,
         hp                |-> enemy_data.hp,
         max_hp            |-> enemy_data.hp,
         armor             |-> enemy_data.armor,
         damage            |-> enemy_data.damage,
         experience_reward |-> 20 * char.level,
         gold_reward       |-> 10 * char.level]

\* the level-up test written with > instead of >=
LevelUpDue_Strict(char) == char.experience > char.level * 100

\* exp_needed = char.level * 100; if char.experience >= exp_needed
LevelUpDue(char) == char.experience >= char.level * 100

\* the body of the level-up branch
LevelUp(char) ==
    [char EXCEPT !.level = char.level + 1,
                 !.max_hp = char.max_hp + 20,
                 !.hp = char.max_hp + 20,
                 !.strength = char.strength + 2,
                 !.agility = char.agility + 2]

\* char.experience += enemy.experience_reward; char.gold += enemy.gold_reward
Rewarded(char, enemy) ==
    [char EXCEPT !.experience = char.experience + enemy.experience_reward,
                 !.gold = char.gold + enemy.gold_reward]

\* a victory on which the enemy still strikes back
Victory_WithCounterattack(char, enemy) ==
    [Rewarded(char, enemy) EXCEPT
        !.hp = char.hp - Max(1, enemy.damage - char.armor)]

\* the victory branch up to save_character
Victory(char, enemy) ==
    IF LevelUpDue(Rewarded(char, enemy))
    THEN LevelUp(Rewarded(char, enemy))
    ELSE Rewarded(char, enemy)

\* an enemy that never strikes back
EnemyDamage_Spared(enemy, char) == 0

\* the counterattack without the floor of 1
EnemyDamage_NoFloor(enemy, char) == enemy.damage - char.armor

\* enemy_damage = max(1, enemy.damage - char.armor)
EnemyDamage(enemy, char) == Max(1, enemy.damage - char.armor)

\* the gold penalty without max(0, ...)
Defeat_NoClamp(char) ==
    [char EXCEPT !.hp = char.max_hp \div 2,
                 !.gold = char.gold - 20]

\* the defeat branch: char.hp = char.max_hp // 2, gold = max(0, gold - 20)
Defeat(char) ==
    [char EXCEPT !.hp = char.max_hp \div 2,
                 !.gold = Max(0, char.gold - 20)]

\* the non-victory branch without the defeat reset
Counterattack_NoReset(char, enemy) ==
    [char EXCEPT !.hp = char.hp - EnemyDamage(enemy, char)]

\* the non-victory branch up to save_character
Counterattack(char, enemy) ==
    LET hit == [char EXCEPT !.hp = char.hp - EnemyDamage(enemy, char)]
    IN  IF hit.hp <= 0 THEN Defeat(hit) ELSE hit

\* the victory test written with < instead of <=
IsDefeated_Strict(hp) == hp < 0

\* enemy.hp <= 0, the test of enemy_defeated and of the victory branch
IsDefeated(hp) == hp <= 0

\* a missing battle handled as a lost one: the defeat penalty is applied
NoBattleResult_Penalty(char) ==
    [raised |-> FALSE,
     char |-> [char EXCEPT !.hp = char.max_hp \div 2,
                           !.gold = Max(0, char.gold - 20)],
     battle |-> None, enemy |-> None, ret |-> [error |-> TRUE]]

\* if not enemy: return {"error": "Нет активного боя"}; nothing is written
NoBattleResult(char) ==
    [raised |-> FALSE, char |-> char, battle |-> None, enemy |-> None,
     ret |-> [error |-> TRUE]]

\* process_attack with a battle row.  raised: a KeyError on
\* attack_result["damage"] or attack_result["description"] left the
\* function before any write; char, battle: the rows after the call (battle
\* None when cleared); enemy: the local Enemy object after
\* `enemy.hp -= damage`; ret: the returned dictionary, a key the code
\* leaves out being None (FALSE for the flags read with .get).
AttackTurn(char, enemy, action, response) ==
    LET Turn(attack_result) ==
        IF "damage" \notin DOMAIN attack_result
           \/ "description" \notin DOMAIN attack_result
        THEN [raised |-> TRUE, char |-> char, battle |-> enemy,
              enemy |-> enemy, ret |-> None]
        ELSE
        LET damage   == attack_result.damage
            hurt     == [enemy EXCEPT !.hp = enemy.hp - damage]
            defeated == IsDefeated(hurt.hp)
            lost     == char.hp - EnemyDamage(hurt, char) <= 0
        IN  [raised |-> FALSE,
             char   |-> IF defeated THEN Victory(char, enemy)
                        ELSE Counterattack(char, hurt),
             battle |-> IF defeated \/ lost THEN None ELSE hurt,
             enemy  |-> hurt,
             ret    |-> [error              |-> FALSE,
                         player_damage      |-> damage,
                         attack_description |-> attack_result.description,
                         critical           |->
                             Get(attack_result, "critical", FALSE),
                         enemy_defeated     |-> defeated,
                         level_up           |->
                             defeated /\ LevelUpDue(Rewarded(char, enemy)),
                         rewards            |->
                             IF defeated
                             THEN [exp |-> enemy.experience_reward,
                                   gold |-> enemy.gold_reward]
                             ELSE None,
                         enemy_damage       |->
                             IF defeated THEN None
                             ELSE EnemyDamage(hurt, char),
                         enemy_hp           |->
                             IF defeated THEN None ELSE hurt.hp,
                         player_defeated    |-> ~defeated /\ lost]]
    IN  CHOOSE turn \in {Turn(attack_result) : attack_result \in
                             {calculate_damage(action, char, enemy,
                                               response)}} : TRUE

\* process_attack on the character and the battle read from the tables
process_attack(char, enemy, action, response) ==
    IF enemy = None
    THEN NoBattleResult(char)
    ELSE AttackTurn(char, enemy, action, response)

\* ------------------------------------------------------------------------
\* Inputs: what players type and what the text service replies
\* ------------------------------------------------------------------------
\* "Бью"
MSG_HIT == <<"cB", "cx", "cyu">>
\* "Бью точно"
MSG_PRECISE == <<"cB", "cx", "cyu", " ", "ct", "co", "cch", "cn", "co">>

\* "Герой"
NAME_HERO == <<"cG", "ce", "cr", "co", "cj">>

\* the text of a message: a name, an action in a scene, an action in battle
Names == {NAME_HERO}
ActionTexts == {MSG_HIT}
MessageTexts == {MSG_HIT, MSG_PRECISE}

\* "Тихо."
TXT_QUIET == <<"cT", "ci", "ch", "co", ".">>
\* "ВРАГ: волк"
TXT_ENEMY == <<"cV", "cR", "cA", "cG", ":", " ", "cv", "co", "cl", "ck">>
\* "Торговец.\nПОКУПКА: Iron Sword |50|weapon| damage 8\n1. Уйти"
TXT_BUY ==
    <<"cT", "co", "cr", "cg", "co", "cv", "ce", "cc", ".", "\n",
      "cP", "cO", "cK", "cU", "cP", "cK", "cA", ":", " ",
      "I", "r", "o", "n", " ", "S", "w", "o", "r", "d", " ", "|",
      "5", "0", "|", "w", "e", "a", "p", "o", "n", "|", " ",
      "d", "a", "m", "a", "g", "e", " ", "8", "\n",
      "1", ".", " ", "cU", "cj", "ct", "ci">>
\* "ПОКУПКА: Iron Sword | 30 | weapon | damage 8"
TXT_BUY_SPACED ==
    <<"cP", "cO", "cK", "cU", "cP", "cK", "cA", ":", " ",
      "I", "r", "o", "n", " ", "S", "w", "o", "r", "d", " ", "|", " ",
      "3", "0", " ", "|", " ", "w", "e", "a", "p", "o", "n", " ", "|", " ",
      "d", "a", "m", "a", "g", "e", " ", "8">>
\* "ПОКУПКА: Iron Sword | weapon | damage 8"
TXT_NO_PRICE ==
    <<"cP", "cO", "cK", "cU", "cP", "cK", "cA", ":", " ",
      "I", "r", "o", "n", " ", "S", "w", "o", "r", "d", " ", "|", " ",
      "w", "e", "a", "p", "o", "n", " ", "|", " ",
      "d", "a", "m", "a", "g", "e", " ", "8">>
\* "ПОКУПКА: Iron Sword 30 weapon damage 8"
TXT_NO_PIPES ==
    <<"cP", "cO", "cK", "cU", "cP", "cK", "cA", ":", " ",
      "I", "r", "o", "n", " ", "S", "w", "o", "r", "d", " ",
      "3", "0", " ", "w", "e", "a", "p", "o", "n", " ",
      "d", "a", "m", "a", "g", "e", " ", "8">>

\* "ПОКУПКА: Spiked Shield |40|armor| armor 3 damage"
TXT_BUY_BOTH ==
    <<"cP", "cO", "cK", "cU", "cP", "cK", "cA", ":", " ",
      "S", "p", "i", "k", "e", "d", " ", "S", "h", "i", "e", "l", "d", " ",
      "|", "4", "0", "|", "a", "r", "m", "o", "r", "|", " ",
      "a", "r", "m", "o", "r", " ", "3", " ", "d", "a", "m", "a", "g", "e">>

\* "Ошибка генерации: timeout", what generate() returns when the request
\* to the text service fails
TXT_ERROR ==
    <<"cO", "csh", "ci", "cb", "ck", "ca", " ", "cg", "ce", "cn", "ce", "cr",
      "ca", "cc", "ci", "ci", ":", " ", "t", "i", "m", "e", "o", "u", "t">>

\* "Враг нападает!"
TXT_AMBUSH ==
    <<"cV", "cr", "ca", "cg", " ",
      "cn", "ca", "cp", "ca", "cd", "ca", "ce", "ct", "!">>

\* replies of generate() to the narrative prompts
NarrativeTexts == {TXT_QUIET, TXT_ENEMY, TXT_BUY}

\* replies that carry a purchase line, well-formed or not
PurchaseTexts ==
    {TXT_ENEMY, TXT_BUY, TXT_BUY_SPACED, TXT_NO_PRICE, TXT_NO_PIPES,
     TXT_BUY_BOTH, TXT_ERROR}

\* replies that tell of an enemy, with the marker or without it
EncounterTexts == {TXT_QUIET, TXT_ENEMY, TXT_AMBUSH}

\* "Тролль"
TROLL_NAME == <<"cT", "cr", "co", "cl", "cl", "cx">>

\* "Гоблин"
GOBLIN_NAME == <<"cG", "co", "cb", "cl", "ci", "cn">>

\* replies to the enemy prompt: JSON objects (armor is left to its default)
EnemyResponses ==
    {[name |-> GOBLIN_NAME, hp |-> 20, damage |-> 30],
     [name |-> TROLL_NAME, hp |-> 100, damage |-> 205]}

DecisiveEnemies == {[name |-> TROLL_NAME, hp |-> 100, damage |-> 205]}

\* "Крыса"
RAT_NAME == <<"cK", "cr", "cy", "cs", "ca">>

\* an enemy whose damage is below the character's armor
WeakEnemies == {[name |-> RAT_NAME, hp |-> 100, damage |-> 3]}

\* replies to the damage prompt: no JSON, or a JSON object, which may lack
\* the keys the prompt asked for
JudgementResponses ==
    {NoJson,
     [damage |-> 0, critical |-> FALSE, description |-> TXT_QUIET],
     [damage |-> 100, critical |-> TRUE, description |-> TXT_QUIET],
     [critical |-> FALSE, description |-> TXT_QUIET]}

DecisiveJudgements ==
    {[damage |-> 100, critical |-> TRUE, description |-> TXT_QUIET],
     [damage |-> 0, critical |-> FALSE, description |-> TXT_QUIET]}

\* the replies of a campaign of victories
CampaignTexts == {TXT_QUIET, TXT_ENEMY}
CampaignEnemies == {[name |-> GOBLIN_NAME, hp |-> 20, damage |-> 30]}
CampaignJudgements ==
    {[damage |-> 100, critical |-> TRUE, description |-> TXT_QUIET]}

\* judgements that miss, wound and kill the weak enemy
WoundingJudgements ==
    DecisiveJudgements
        \cup {[damage |-> 50, critical |-> FALSE, description |-> TXT_QUIET]}

\* ------------------------------------------------------------------------
\* State
\* ------------------------------------------------------------------------
VARIABLES
    characters,      \* table characters: user_id -> Character or None
    inventory,       \* table inventory: user_id -> the user's Items
    active_battles,  \* table active_battles: user_id -> Enemy or None
    awaiting_name,   \* context.user_data['awaiting_name'] of each user
    buttons,         \* callback buttons the bot has shown to each user
    last             \* the last request and what it returned (handlers
                     \* that only send a reply leave kind "reply")

vars == <<characters, inventory, active_battles, awaiting_name, buttons,
          last>>

\* keyboards sent by the handlers
MENU_KEYBOARD == {"inventory", "stats"}
FULL_KEYBOARD == {"inventory", "stats", "new_location"}
BACK_KEYBOARD == {"back_to_location"}

Init ==
    /\ characters = [u \in Users |-> None]
    /\ inventory = [u \in Users |-> << >>]
    /\ active_battles = [u \in Users |-> None]
    /\ awaiting_name = [u \in Users |-> FALSE]
    /\ buttons = [u \in Users |-> {}]
    /\ last = [kind |-> "init"]

\* the character stays within the bounds of the model
InBounds(char) ==
    char.experience <= MaxExperience /\ char.gold <= MaxGold

\* the enemy prompt is only sent when a battle starts: without a battle
\* no reply to it is drawn
RepliesIf(starts_battle, responses) ==
    IF starts_battle THEN responses ELSE {NoJson}

\* ------------------------------------------------------------------------
\* Handlers
\* ------------------------------------------------------------------------
\* /start asking for a name whether or not a character exists
Start_AlwaysAsks(u) ==
    /\ awaiting_name' = [awaiting_name EXCEPT ![u] = TRUE]
    /\ last' = [kind |-> "reply", user |-> u]
    /\ UNCHANGED <<characters, inventory, active_battles, buttons>>

\* /start
Start(u) ==
    /\ awaiting_name' =
           IF characters[u] = None
           THEN [awaiting_name EXCEPT ![u] = TRUE]
           ELSE awaiting_name
    /\ last' = [kind |-> "reply", user |-> u]
    /\ UNCHANGED <<characters, inventory, active_battles, buttons>>

\* handle_message while the name is awaited: create_character
HandleMessageName(u, text) ==
    /\ awaiting_name[u]
    /\ characters' = [characters EXCEPT ![u] = NewCharacter(u, text)]
    /\ inventory' = [inventory EXCEPT ![u] = inventory[u] \o StarterItems]
    /\ awaiting_name' = [awaiting_name EXCEPT ![u] = FALSE]
    /\ last' = [kind |-> "create", user |-> u]
    /\ UNCHANGED <<active_battles, buttons>>

\* handle_message with an active battle: process_attack
HandleMessageAttack(u, text, judgement) ==
    /\ ~awaiting_name[u]
    /\ active_battles[u] # None
    /\ \E out \in {process_attack(characters[u], active_battles[u], text,
                                   judgement)} :
           /\ characters' = [characters EXCEPT ![u] = out.char]
           /\ active_battles' = [active_battles EXCEPT ![u] = out.battle]
           /\ buttons' =
                  IF ~out.raised
                     /\ (out.ret.enemy_defeated \/ out.ret.player_defeated)
                  THEN [buttons EXCEPT ![u] = @ \cup FULL_KEYBOARD]
                  ELSE buttons
           /\ last' = [kind |-> "attack", via |-> "message", user |-> u,
                       judgement |-> judgement, raised |-> out.raised,
                       enemy |-> out.enemy, ret |-> out.ret]
    /\ UNCHANGED <<inventory, awaiting_name>>

\* GameEngine.process_attack called for a character whose battle row is
\* absent (the engine's Attack request outside a battle; handle_message
\* itself only calls process_attack after it has seen a battle row).  The
\* damage prompt is not sent, so no reply to it is drawn.
AttackWithoutBattle(u, text) ==
    /\ characters[u] # None
    /\ active_battles[u] = None
    /\ \E out \in {process_attack(characters[u], active_battles[u], text,
                                   NoJson)} :
           /\ characters' = [characters EXCEPT ![u] = out.char]
           /\ active_battles' = [active_battles EXCEPT ![u] = out.battle]
           /\ last' = [kind |-> "attack", via |-> "engine", user |-> u,
                       judgement |-> NoJson, raised |-> out.raised,
                       enemy |-> out.enemy, ret |-> out.ret]
    /\ UNCHANGED <<inventory, awaiting_name, buttons>>

\* a scene action that is taken whether or not a battle is active
HandleMessageAction_AnyMode(u, text, result_text, enemy_response) ==
    /\ ~awaiting_name[u]
    /\ characters[u] # None
    /\ characters[u].location_state # << >>
    /\ \E out \in {process_action(characters[u], result_text)} :
       LET char   == characters[u]
           stored == [char EXCEPT !.location_state = out.ret.text]
       IN  /\ Len(inventory[u]) + Len(out.items) <= MaxItems
           /\ characters' = [characters EXCEPT ![u] = stored]
           /\ inventory' = [inventory EXCEPT ![u] = inventory[u] \o out.items]
           /\ active_battles' =
                  IF out.ret.has_enemy
                  THEN [active_battles EXCEPT
                           ![u] = start_battle(stored, enemy_response)]
                  ELSE active_battles
           /\ buttons' =
                  IF out.ret.has_enemy THEN buttons
                  ELSE [buttons EXCEPT ![u] = @ \cup FULL_KEYBOARD]
           /\ last' = [kind |-> "action", user |-> u, ret |-> out.ret]
    /\ UNCHANGED awaiting_name

\* handle_message without a battle, in a described scene: process_action,
\* then the scene text is stored on the Character object that was read
\* before process_action ran, and that object is saved
HandleMessageAction(u, text, result_text, enemy_response) ==
    /\ ~awaiting_name[u]
    /\ active_battles[u] = None
    /\ characters[u] # None
    /\ characters[u].location_state # << >>
    /\ \E out \in {process_action(characters[u], result_text)} :
       LET char   == characters[u]
           stored == [char EXCEPT !.location_state = out.ret.text]
       IN  /\ Len(inventory[u]) + Len(out.items) <= MaxItems
           /\ characters' = [characters EXCEPT ![u] = stored]
           /\ inventory' = [inventory EXCEPT ![u] = inventory[u] \o out.items]
           /\ active_battles' =
                  IF out.ret.has_enemy
                  THEN [active_battles EXCEPT
                           ![u] = start_battle(stored, enemy_response)]
                  ELSE active_battles
           /\ buttons' =
                  IF out.ret.has_enemy THEN buttons
                  ELSE [buttons EXCEPT ![u] = @ \cup FULL_KEYBOARD]
           /\ last' = [kind |-> "action", user |-> u, ret |-> out.ret]
    /\ UNCHANGED awaiting_name

\* handle_message with nothing to do: the hint to use /explore
HandleMessageIdle(u) ==
    /\ ~awaiting_name[u]
    /\ active_battles[u] = None
    /\ IF characters[u] = None THEN TRUE
       ELSE characters[u].location_state = << >>
    /\ last' = [kind |-> "reply", user |-> u]
    /\ UNCHANGED <<characters, inventory, active_battles, awaiting_name,
                   buttons>>

\* a location whose description is never stored on the character
EnterLocation_SceneNotStored(u, location_desc, enemy_response) ==
    /\ characters' = characters
    /\ active_battles' =
           IF location_has_enemy(location_desc)
           THEN [active_battles EXCEPT
                    ![u] = start_battle(characters[u], enemy_response)]
           ELSE active_battles
    /\ buttons' =
           IF location_has_enemy(location_desc) THEN buttons
           ELSE [buttons EXCEPT ![u] = @ \cup MENU_KEYBOARD]

\* the tail shared by explore and the new_location button: the generated
\* description becomes the scene text, and the marker starts a battle
EnterLocation(u, location_desc, enemy_response) ==
    LET char   == characters[u]
        stored == [char EXCEPT !.location_state = location_desc]
    IN  /\ characters' = [characters EXCEPT ![u] = stored]
        /\ active_battles' =
               IF location_has_enemy(location_desc)
               THEN [active_battles EXCEPT
                        ![u] = start_battle(stored, enemy_response)]
               ELSE active_battles
        /\ buttons' =
               IF location_has_enemy(location_desc) THEN buttons
               ELSE [buttons EXCEPT ![u] = @ \cup MENU_KEYBOARD]

\* /explore without a character, or in a scene that is already described
ExploreShow(u) ==
    /\ IF characters[u] = None THEN TRUE
       ELSE characters[u].location_state # << >>
    /\ buttons' =
           IF characters[u] = None THEN buttons
           ELSE [buttons EXCEPT ![u] = @ \cup FULL_KEYBOARD]
    /\ last' = [kind |-> "reply", user |-> u]
    /\ UNCHANGED <<characters, inventory, active_battles, awaiting_name>>

\* /explore in a scene that has no description yet: generate_location
Explore(u, location_desc, enemy_response) ==
    /\ characters[u] # None
    /\ characters[u].location_state = << >>
    /\ EnterLocation(u, location_desc, enemy_response)
    /\ last' = [kind |-> "explore", user |-> u, text |-> location_desc]
    /\ UNCHANGED <<inventory, awaiting_name>>

\* button_callback, data "inventory" or "stats": a page with a Back button
ButtonPage(u, data) ==
    /\ data \in buttons[u]
    /\ buttons' = [buttons EXCEPT ![u] = @ \cup BACK_KEYBOARD]
    /\ last' = [kind |-> "reply", user |-> u]
    /\ UNCHANGED <<characters, inventory, active_battles, awaiting_name>>

\* button_callback, data "back_to_location"
ButtonBack(u) ==
    /\ "back_to_location" \in buttons[u]
    /\ buttons' = [buttons EXCEPT ![u] = @ \cup FULL_KEYBOARD]
    /\ last' = [kind |-> "reply", user |-> u]
    /\ UNCHANGED <<characters, inventory, active_battles, awaiting_name>>

\* button_callback, data "new_location": the scene text is cleared and
\* saved, then a new description is generated as in explore
ButtonNewLocation(u, location_desc, enemy_response) ==
    /\ "new_location" \in buttons[u]
    /\ EnterLocation(u, location_desc, enemy_response)
    /\ last' = [kind |-> "new_location", user |-> u,
                text |-> location_desc]
    /\ UNCHANGED <<inventory, awaiting_name>>

\* ------------------------------------------------------------------------
\* Specification.  The Application handles one update at a time, so every
\* handler runs to its end before the next update is taken.
\* ------------------------------------------------------------------------
\* A message in a battle that leaves the character within the bounds of
\* the model
BoundedAttack(u, text, judgement) ==
    /\ HandleMessageAttack(u, text, judgement)
    /\ InBounds(characters'[u])

\* Every other request of user u, the replies drawn from the given sets
OtherRequests(u, narratives, enemy_responses) ==
    \/ Start(u)
    \/ \E text \in Names : HandleMessageName(u, text)
    \/ \E text \in ActionTexts : AttackWithoutBattle(u, text)
    \/ \E text \in ActionTexts, result_text \in narratives :
           \E enemy_response \in
                 RepliesIf(has_enemy(result_text), enemy_responses) :
               HandleMessageAction(u, text, result_text, enemy_response)
    \/ HandleMessageIdle(u)
    \/ ExploreShow(u)
    \/ \E location_desc \in narratives :
           \E enemy_response \in
                 RepliesIf(location_has_enemy(location_desc),
                           enemy_responses) :
               Explore(u, location_desc, enemy_response)
    \/ \E data \in MENU_KEYBOARD : ButtonPage(u, data)
    \/ ButtonBack(u)
    \/ \E location_desc \in narratives :
           \E enemy_response \in
                 RepliesIf(location_has_enemy(location_desc),
                           enemy_responses) :
               ButtonNewLocation(u, location_desc, enemy_response)

\* One step with the replies of the text service drawn from the given
\* sets; an attack that would take the character out of the bounds of the
\* model is not taken
NextWith(narratives, enemy_responses, judgements) ==
    \E u \in Users :
        \/ \E text \in MessageTexts, judgement \in judgements :
               BoundedAttack(u, text, judgement)
        \/ OtherRequests(u, narratives, enemy_responses)

\* The game: a quiet scene, an encounter, a purchase offer
Next == NextWith(NarrativeTexts, EnemyResponses, JudgementResponses)

Spec == Init /\ [][Next]_vars

\* The parser: every shape of purchase line, with battles decided in one
\* turn
NextParse == NextWith(PurchaseTexts, DecisiveEnemies, DecisiveJudgements)

SpecParse == Init /\ [][NextParse]_vars

\* An attack turn of user u that process_attack resolved
ResolvedTurn(u) ==
    \E text \in MessageTexts, judgement \in JudgementResponses :
        BoundedAttack(u, text, judgement) /\ ~last'.raised

\* The game with a player who keeps attacking while in a battle and a
\* judgement service that keeps answering with a usable judgement
NextDuel == NextWith(CampaignTexts, EnemyResponses, JudgementResponses)
SpecDuel ==
    /\ Init
    /\ [][NextDuel]_vars
    /\ \A u \in Users : WF_vars(ResolvedTurn(u))

\* Encounters: texts that tell of an enemy with and without the marker,
\* and an enemy too weak to get through the character's armor
NextEncounter == NextWith(EncounterTexts, WeakEnemies, WoundingJudgements)

SpecEncounter == Init /\ [][NextEncounter]_vars

\* A message in a battle that leaves the character at most at MaxLevel
CampaignAttack(u, text, judgement) ==
    /\ HandleMessageAttack(u, text, judgement)
    /\ characters'[u].level <= MaxLevel

\* A campaign: every encounter is a goblin and every blow kills it, so the
\* character climbs through the levels
NextCampaign ==
    \E u \in Users :
        \/ \E text \in MessageTexts, judgement \in CampaignJudgements :
               CampaignAttack(u, text, judgement)
        \/ OtherRequests(u, CampaignTexts, CampaignEnemies)

SpecCampaign == Init /\ [][NextCampaign]_vars

\* ------------------------------------------------------------------------
\* Properties.  A step is recognised by the request it leaves in last'; the
\* unprimed variables are the tables before the request, the primed ones the
\* tables after the whole handler has run.
\* ------------------------------------------------------------------------
\* a scene action (handle_message calling process_action) of user u
ActionStep(u) == last'.kind = "action" /\ last'.user = u

\* a scene action of user u whose text yielded a purchase offer
OfferStep(u) == ActionStep(u) /\ last'.ret.purchase # None

\* an attack turn of user u against an active battle that returned a result
TurnStep(u) ==
    /\ last'.kind = "attack"
    /\ last'.user = u
    /\ active_battles[u] # None
    /\ ~last'.raised

\* "Iron Sword", "weapon", "damage 8"
IRON_SWORD == <<"I", "r", "o", "n", " ", "S", "w", "o", "r", "d">>
WEAPON == <<"w", "e", "a", "p", "o", "n">>
DAMAGE_8 == <<"d", "a", "m", "a", "g", "e", " ", "8">>

\* C1: when a scene action yields a purchase offer of price p and the
\* character's persisted gold g is at least p, then after the request the
\* persisted gold is g - p, the inventory has exactly one more item and the
\* reported gold_left is g - p.
C1_PurchaseDeductsGold ==
    [][\A u \in Users :
          (OfferStep(u) /\ characters[u].gold >= last'.ret.purchase.price)
          => /\ last'.ret.purchase.success
             /\ last'.ret.purchase.gold_left
                    = characters[u].gold - last'.ret.purchase.price
             /\ Len(inventory'[u]) = Len(inventory[u]) + 1
             /\ characters'[u].gold
                    = characters[u].gold - last'.ret.purchase.price]_vars

\* C2: when a purchase offer of price p is parsed and the character's gold
\* g is below p, the outcome is a failure with gold_needed = p - g, and
\* neither the persisted gold nor the inventory changes.
C2_FailedPurchase ==
    [][\A u \in Users :
          (OfferStep(u) /\ characters[u].gold < last'.ret.purchase.price)
          => /\ ~last'.ret.purchase.success
             /\ last'.ret.purchase.gold_needed
                    = last'.ret.purchase.price - characters[u].gold
             /\ characters'[u].gold = characters[u].gold
             /\ inventory'[u] = inventory[u]]_vars

\* gold 40, price 50: a failure that reports gold_needed 10
C2_Witness ==
    /\ last.kind = "action"
    /\ last.ret.purchase # None
    /\ ~last.ret.purchase.success
    /\ last.ret.purchase.price = 50
    /\ last.ret.purchase.gold_needed = 10
    /\ characters[last.user].gold = 40

\* C3: an attack on a character without an active battle reports the
\* no-active-battle condition and leaves the character, the inventory and
\* the battle table unchanged.
C3_AttackWithoutBattle ==
    [][\A u \in Users :
          (last'.kind = "attack" /\ last'.user = u
              /\ active_battles[u] = None)
          => /\ ~last'.raised
             /\ last'.ret = [error |-> TRUE]
             /\ UNCHANGED <<characters, inventory, active_battles>>]_vars

\* an attack was attempted outside a battle by a character that has been
\* through a fight (its hit points are below the maximum)
C3_Witness ==
    /\ last.kind = "attack"
    /\ ~last.raised
    /\ last.ret = [error |-> TRUE]
    /\ active_battles[last.user] = None
    /\ characters[last.user].hp < characters[last.user].max_hp

\* C4: in an attack turn with damage d >= 0 against an enemy with h hit
\* points, the enemy is left with h - d hit points, the turn is a victory
\* iff h - d <= 0, and a battle that goes on keeps the h - d.
C4_DamageApplied ==
    [][\A u \in Users :
          (TurnStep(u) /\ last'.ret.player_damage >= 0)
          => LET left == active_battles[u].hp - last'.ret.player_damage
             IN  /\ last'.enemy.hp = left
                 /\ last'.ret.enemy_defeated <=> (left <= 0)
                 /\ last'.ret.enemy_defeated
                        => active_battles'[u] = None
                 /\ active_battles'[u] # None
                        => active_battles'[u].hp = left]_vars

\* a turn that brought the enemy to exactly 0 hit points, a victory
C4_Witness ==
    /\ last.kind = "attack"
    /\ ~last.raised
    /\ ~last.ret.error
    /\ last.ret.player_damage > 0
    /\ last.enemy.hp = 0
    /\ last.ret.enemy_defeated

\* a turn of damage 0 that left the battle going
C4_WitnessZero ==
    /\ last.kind = "attack"
    /\ ~last.raised
    /\ ~last.ret.error
    /\ last.ret.player_damage = 0
    /\ active_battles[last.user] # None

C6_Defeat ==
    [][\A u \in Users :
          (/\ TurnStep(u)
           /\ ~last'.ret.enemy_defeated
           /\ characters[u].hp
                  - Max(1, active_battles[u].damage - characters[u].armor)
                  <= 0)
          => /\ last'.ret.player_defeated
             /\ characters'[u] =
                    [characters[u] EXCEPT
                        !.hp = characters[u].max_hp \div 2,
                        !.gold = Max(0, characters[u].gold - 20)]
             /\ active_battles'[u] = None]_vars

\* a defeat of a character that had less than 20 gold
C6_Witness ==
    /\ last.kind = "attack"
    /\ ~last.raised
    /\ ~last.ret.error
    /\ last.ret.player_defeated
    /\ characters[last.user].gold = 0
    /\ characters[last.user].hp = 50
    /\ active_battles[last.user] = None

\* the fallback judgement was computed for strength 10, agility 10, enemy
\* armor 5 and an action without a critical keyword
FallbackExampleStep(u) ==
    /\ TurnStep(u)
    /\ last'.judgement = NoJson
    /\ characters[u].strength = 10
    /\ characters[u].agility = 10
    /\ active_battles[u].armor = 5
    /\ ~last'.ret.critical

\* C7 as stated: the fallback damage for strength 10, agility 10, armor 5,
\* not critical, is 14.
C7_FallbackDamage14 ==
    [][\A u \in Users :
          FallbackExampleStep(u) => last'.ret.player_damage = 14]_vars

\* C7, amended: the fallback damage for strength 10, agility 10, armor 5,
\* not critical, is 13: int() truncates 15 - 1.5 = 13.5.
C7_FallbackDamage13 ==
    [][\A u \in Users :
          FallbackExampleStep(u) => last'.ret.player_damage = 13]_vars

\* a fallback judgement of a level-1 character against armor 5
C7_Witness ==
    /\ last.kind = "attack"
    /\ ~last.raised
    /\ last.judgement = NoJson
    /\ ~last.ret.error
    /\ ~last.ret.critical
    /\ last.enemy.armor = 5
    /\ characters[last.user].strength = 10
    /\ characters[last.user].agility = 10
    /\ last.ret.player_damage = 13

\* C8: the purchase line "ПОКУПКА: Iron Sword | 30 | weapon | damage 8",
\* fields separated by ' | ', is parsed into an offer of 'Iron Sword' for
\* 30, and the item bought is a weapon of damage 8, armor bonus 0, heal 0.
C8_SpacedLineParsed ==
    \A u \in Users :
        (last.kind = "action" /\ last.user = u
            /\ last.ret.text = TXT_BUY_SPACED)
        => /\ last.ret.purchase # None
           /\ last.ret.purchase.item = IRON_SWORD
           /\ last.ret.purchase.price = 30
           /\ last.ret.purchase.success
                  => inventory[u][Len(inventory[u])]
                         = Item(IRON_SWORD, WEAPON, 8, 0, 0, DAMAGE_8)

\* C9: a purchase line without the price or without the pipes yields no
\* offer: the request completes with purchase = None, and gold and
\* inventory stay as they were.
C9_MalformedLineIgnored ==
    [][\A u \in Users :
          (ActionStep(u) /\ last'.ret.text \in {TXT_NO_PRICE, TXT_NO_PIPES})
          => /\ last'.ret.purchase = None
             /\ characters'[u].gold = characters[u].gold
             /\ inventory'[u] = inventory[u]]_vars

\* a request whose text was the line without the price has completed
C9_Witness ==
    /\ last.kind = "action"
    /\ last.ret.text = TXT_NO_PRICE
    /\ last.ret.purchase = None
    /\ characters[last.user].location_state = TXT_NO_PRICE

\* C10: every persisted character has 0 <= hp <= max_hp, gold >= 0 and
\* level >= 1.
C10_CharacterValid ==
    \A u \in Users :
        characters[u] # None
        => /\ 0 <= characters[u].hp
           /\ characters[u].hp <= characters[u].max_hp
           /\ characters[u].gold >= 0
           /\ characters[u].level >= 1

\* a character that has levelled up, fought again, lost hit points and gold
\* and is back in a scene
C10_Witness ==
    /\ last.kind = "action"
    /\ characters[last.user].level = 2
    /\ characters[last.user].hp < characters[last.user].max_hp
    /\ characters[last.user].gold < 20
    /\ Len(inventory[last.user]) > 3

\* the reply to the damage prompt is unusable: no JSON object in it, or an
\* object without "damage" or without "description"
Malformed(judgement) ==
    IF judgement = NoJson THEN TRUE
    ELSE "damage" \notin DOMAIN judgement
             \/ "description" \notin DOMAIN judgement

\* C11: an attack turn whose damage judgement is unavailable or malformed
\* completes without raising and is resolved with the fallback damage
\* max(1, ...) computed from strength, agility and the enemy's armor.
C11_FallbackOnMalformed ==
    [][\A u \in Users :
          (/\ last'.kind = "attack"
           /\ last'.user = u
           /\ active_battles[u] # None
           /\ Malformed(last'.judgement))
          => /\ ~last'.raised
             /\ last'.ret.player_damage
                    = FallbackDamage(characters[u].strength,
                                     characters[u].agility,
                                     active_battles[u].armor,
                                     last'.ret.critical)]_vars

\* a request of user u that ran start_battle: a scene action whose text
\* was taken for an encounter, or a location whose text holds the marker
BattleStartStep(u) ==
    \/ ActionStep(u) /\ last'.ret.has_enemy
    \/ /\ last'.kind \in {"explore", "new_location"}
       /\ last'.user = u
       /\ location_has_enemy(last'.text)

\* a victorious attack turn of user u
VictoryStep(u) == TurnStep(u) /\ last'.ret.enemy_defeated

\* C12: every Enemy created by start_battle has experience_reward = 20 *
\* level and gold_reward = 10 * level for the character's level at the start
\* of the battle, whatever the generator replied; a victory adds exactly
\* these amounts to the character's experience and gold.
C12_RewardsFromLevel ==
    [][\A u \in Users :
          /\ BattleStartStep(u)
                 => /\ active_battles'[u] # None
                    /\ active_battles'[u].experience_reward
                           = 20 * characters[u].level
                    /\ active_battles'[u].gold_reward
                           = 10 * characters[u].level
          /\ VictoryStep(u)
                 => /\ characters'[u].experience
                           = characters[u].experience
                                 + 20 * characters[u].level
                    /\ characters'[u].gold
                           = characters[u].gold + 10 * characters[u].level
                    /\ last'.ret.rewards
                           = [exp  |-> 20 * characters[u].level,
                              gold |-> 10 * characters[u].level]]_vars

\* a battle started by a character of level 2: rewards 40 and 20
C12_Witness ==
    /\ last.kind \in {"action", "explore", "new_location"}
    /\ active_battles[last.user] # None
    /\ characters[last.user].level = 2
    /\ active_battles[last.user].experience_reward = 40
    /\ active_battles[last.user].gold_reward = 20

\* the level an Enemy was created at, read back from its reward
CreatedAt(enemy) == enemy.experience_reward \div 20

\* hit points at creation, armor and damage of e2 are at least those of e1
AtLeast(e2, e1) ==
    /\ e2.max_hp >= e1.max_hp
    /\ e2.armor >= e1.armor
    /\ e2.damage >= e1.damage

\* C13: enemy creation is monotonic non-decreasing in level: an Enemy
\* created at a level L2 has hit points, armor and damage at least those of
\* an Enemy created at a level L1 <= L2.  The two enemies compared are the
\* one of the character's previous attack turn and the one start_battle
\* creates in the next request.
C13_EnemyScalingMonotonic ==
    [][\A u \in Users :
          (/\ BattleStartStep(u)
           /\ last.kind = "attack"
           /\ last.user = u
           /\ last.enemy # None
           /\ CreatedAt(last.enemy) <= characters[u].level)
          => AtLeast(active_battles'[u], last.enemy)]_vars

\* C14: when an attack brings the enemy's hit points to zero or below, the
\* character gains the enemy's experience and gold rewards, the battle row
\* is cleared, and no counterattack is applied: none is reported and the
\* character's hit points are not reduced.
C14_Victory ==
    [][\A u \in Users :
          (/\ TurnStep(u)
           /\ active_battles[u].hp - last'.ret.player_damage <= 0)
          => /\ last'.ret.enemy_defeated
             /\ characters'[u].experience
                    = characters[u].experience
                          + active_battles[u].experience_reward
             /\ characters'[u].gold
                    = characters[u].gold + active_battles[u].gold_reward
             /\ active_battles'[u] = None
             /\ last'.ret.enemy_damage = None
             /\ ~last'.ret.player_defeated
             /\ characters'[u].hp >= characters[u].hp]_vars

\* a victory of a wounded character that did not level up: the rewards are
\* in, the battle is gone and the hit points are still those of the wound
C14_Witness ==
    /\ last.kind = "attack"
    /\ ~last.raised
    /\ ~last.ret.error
    /\ last.ret.enemy_defeated
    /\ ~last.ret.level_up
    /\ last.ret.rewards = [exp |-> 20, gold |-> 10]
    /\ characters[last.user].hp = 75
    /\ characters[last.user].experience = 20
    /\ active_battles[last.user] = None

\* C15: on an attack turn that leaves the enemy alive the enemy strikes
\* back for exactly max(1, enemy.damage - character.armor), which is taken
\* from the character's hit points; when the character survives, the battle
\* stays active and the enemy's reduced hit points are persisted.
C15_Counterattack ==
    [][\A u \in Users :
          (/\ TurnStep(u)
           /\ active_battles[u].hp - last'.ret.player_damage > 0)
          => LET enemy_damage ==
                     Max(1, active_battles[u].damage - characters[u].armor)
             IN  /\ ~last'.ret.enemy_defeated
                 /\ last'.ret.enemy_damage = enemy_damage
                 /\ characters[u].hp - enemy_damage > 0
                        => /\ ~last'.ret.player_defeated
                           /\ characters'[u] =
                                  [characters[u] EXCEPT
                                      !.hp = @ - enemy_damage]
                           /\ active_battles'[u] =
                                  [active_battles[u] EXCEPT
                                      !.hp = @ - last'.ret.player_damage]]_vars

\* the enemy's damage 3 is below the armor 5: the counterattack took the
\* floor of 1 hit point twice from a character of 100, and the wounded
\* enemy is still in the battle table
C15_Witness ==
    /\ last.kind = "attack"
    /\ ~last.raised
    /\ ~last.ret.error
    /\ ~last.ret.enemy_defeated
    /\ last.ret.enemy_damage = 1
    /\ last.ret.player_damage = 50
    /\ characters[last.user].hp = 98
    /\ active_battles[last.user] # None
    /\ active_battles[last.user].hp = 50
    /\ active_battles[last.user].damage = 3

\* "armor", "potion"
ARMOR == <<"a", "r", "m", "o", "r">>
POTION == <<"p", "o", "t", "i", "o", "n">>

\* C16: a character is created at most once per player: create_character
\* only runs for a player without a persisted character and persists level
\* 1, hp 100 of 100, gold 50 and exactly three starter items (a weapon, an
\* armor, a potion); for a player who has a character no request creates
\* one again, and the character keeps its name and never loses a level or
\* experience.
C16_CreatedOnce ==
    [][\A u \in Users :
          /\ (last'.kind = "create" /\ last'.user = u)
                 => /\ characters[u] = None
                    /\ characters'[u].level = 1
                    /\ characters'[u].hp = 100
                    /\ characters'[u].max_hp = 100
                    /\ characters'[u].gold = 50
                    /\ Len(inventory'[u]) = 3
                    /\ inventory'[u][1].type = WEAPON
                    /\ inventory'[u][2].type = ARMOR
                    /\ inventory'[u][3].type = POTION
          /\ characters[u] # None
                 => /\ ~(last'.kind = "create" /\ last'.user = u)
                    /\ characters'[u] # None
                    /\ characters'[u].name = characters[u].name
                    /\ characters'[u].level >= characters[u].level
                    /\ characters'[u].experience
                           >= characters[u].experience
                    /\ Len(inventory'[u]) >= Len(inventory[u])]_vars

\* the character has just been created
C16_Witness ==
    /\ last.kind = "create"
    /\ characters[last.user] # None
    /\ characters[last.user].name = NAME_HERO
    /\ characters[last.user].level = 1
    /\ characters[last.user].gold = 50
    /\ Len(inventory[last.user]) = 3
    /\ ~awaiting_name[last.user]

\* C18: start_battle is only executed for a character that has no active
\* Enemy, and an active Enemy is only changed or removed by an attack
\* turn.
C18_NoBattleReplaced ==
    [][\A u \in Users :
          /\ BattleStartStep(u) => active_battles[u] = None
          /\ (active_battles[u] # None
                  /\ active_battles'[u] # active_battles[u])
                 => (last'.kind = "attack" /\ last'.user = u)]_vars

\* a request of user u that interprets a generated narrative text
NarrativeStep(u) ==
    /\ last'.kind \in {"action", "explore", "new_location"}
    /\ last'.user = u

\* C19: on every path that interprets a generated text (scene action,
\* explore, new_location) a battle is started if and only if the text holds
\* the enemy marker, or the word for enemy together with one of the four
\* aggression verbs.
C19_EncounterDetection ==
    [][\A u \in Users :
          NarrativeStep(u)
          => LET text == IF last'.kind = "action" THEN last'.ret.text
                         ELSE last'.text
             IN  IF has_enemy(text)
                 THEN /\ active_battles'[u] # None
                      /\ active_battles'[u].hp = active_battles'[u].max_hp
                 ELSE active_battles'[u] = active_battles[u]]_vars

\* how many of damage, armor_bonus and heal of an item are not zero
NonZeroStats(item) ==
    (IF item.damage # 0 THEN 1 ELSE 0)
        + (IF item.armor_bonus # 0 THEN 1 ELSE 0)
        + (IF item.heal # 0 THEN 1 ELSE 0)

\* C20: the item of a successful purchase has at most one of damage,
\* armor_bonus and heal set to a non-zero value, whatever its stats text
\* (kept as the item's description) says; without a keyword of any family
\* all three are zero.
C20_OneStatInferred ==
    [][\A u \in Users :
          (OfferStep(u) /\ last'.ret.purchase.success)
          => LET item == inventory'[u][Len(inventory'[u])]
             IN  /\ NonZeroStats(item) <= 1
                 /\ (~HasKeyword(item.description, KW_DAMAGE)
                        /\ ~HasKeyword(item.description, KW_ARMOR)
                        /\ ~HasKeyword(item.description, KW_HEAL))
                       => NonZeroStats(item) = 0]_vars

\* the text the generator returned to the request of a narrative step
GeneratedText == IF last'.kind = "action" THEN last'.ret.text ELSE last'.text

\* C21: after every explore or scene-action request that called the
\* generator, the persisted location_state is the text that generation
\* returned, whether a purchase succeeded, failed or was not offered and
\* whether or not a battle was started.
C21_SceneStored ==
    [][\A u \in Users :
          NarrativeStep(u)
          => characters'[u].location_state = GeneratedText]_vars

\* a successful purchase has been made and the scene is the text that
\* offered it
C21_Witness ==
    /\ last.kind = "action"
    /\ last.ret.purchase # None
    /\ last.ret.purchase.success
    /\ last.ret.text = TXT_BUY
    /\ characters[last.user].location_state = TXT_BUY
    /\ Len(inventory[last.user]) = 4

\* C22: a failure of the text service during an explore or scene-action
\* request is not fatal: the request completes with the error text as its
\* narrative, and the character's level, hp, max_hp, experience and gold,
\* the inventory and the battle row are as before the request.
C22_GenerationFailure ==
    [][\A u \in Users :
          (NarrativeStep(u) /\ GeneratedText = TXT_ERROR)
          => /\ characters'[u].level = characters[u].level
             /\ characters'[u].hp = characters[u].hp
             /\ characters'[u].max_hp = characters[u].max_hp
             /\ characters'[u].experience = characters[u].experience
             /\ characters'[u].gold = characters[u].gold
             /\ inventory'[u] = inventory[u]
             /\ active_battles'[u] = active_battles[u]]_vars

\* a scene action of a character that has won a battle was answered with
\* the error text
C22_Witness ==
    /\ last.kind = "action"
    /\ last.ret.text = TXT_ERROR
    /\ last.ret.purchase = None
    /\ ~last.ret.has_enemy
    /\ characters[last.user].gold = 60
    /\ characters[last.user].experience = 20
    /\ active_battles[last.user] = None

\* C23: one level-up per victory always suffices: in every reachable state
\* the character's experience is strictly below level * 100, so that no
\* level-up is left pending after an attack has been resolved.
C23_NoPendingLevelUp ==
    \A u \in Users :
        characters[u] # None
        => characters[u].experience < characters[u].level * 100

\* C24: a battle ends after finitely many attack turns, whatever damage
\* the judgements return (0 included): every resolved turn either clears
\* the battle or leaves the character with fewer hit points, at least 1,
\* and no request made during a battle gives hit points back, so that a
\* battle has at most as many non-victory turns as the character has hit
\* points; and while the player keeps attacking, an active battle leads to
\* a cleared battle row.
C24_BattleEnds ==
    /\ [][\A u \in Users :
             /\ TurnStep(u)
                => \/ active_battles'[u] = None
                   \/ /\ 1 <= characters'[u].hp
                      /\ characters'[u].hp < characters[u].hp
             /\ (active_battles[u] # None /\ active_battles'[u] # None)
                => characters'[u].hp <= characters[u].hp]_vars
    /\ \A u \in Users :
           (active_battles[u] # None) ~> (active_battles[u] = None)

\* a battle in which every blow did damage 0 has ended with the defeat of
\* the character, the goblin unhurt
C24_Witness ==
    /\ last.kind = "attack"
    /\ ~last.raised
    /\ ~last.ret.error
    /\ last.ret.player_damage = 0
    /\ last.ret.player_defeated
    /\ last.enemy.name = GOBLIN_NAME
    /\ last.enemy.hp = last.enemy.max_hp
    /\ active_battles[last.user] = None

\* a text message of user u taken as the name of a new character, as an
\* attack turn, as a scene action
MessageAsName(u) == \E text \in Names : HandleMessageName(u, text)
MessageAsAttack(u) ==
    \E text \in MessageTexts, judgement \in JudgementResponses :
        HandleMessageAttack(u, text, judgement)
MessageAsAction(u) ==
    \E text \in ActionTexts, result_text \in NarrativeTexts :
        \E enemy_response \in EnemyResponses \cup {NoJson} :
            HandleMessageAction(u, text, result_text, enemy_response)

\* a text message of user u was resolved as an attack turn
MessageAttackStep(u) ==
    /\ last'.kind = "attack"
    /\ last'.user = u
    /\ last'.via = "message"

\* C25: while a battle is active a text message of the player can only be
\* resolved as an attack turn (not as a name, a scene action or the hint to
\* explore), and without a battle it cannot be resolved as an attack turn; a
\* scene action only happens without a battle, and a message resolved as an
\* attack turn happens in a battle and changes neither the inventory nor
\* the scene state.
C25_ModeRouting ==
    /\ [](\A u \in Users :
             IF active_battles[u] # None
             THEN /\ ENABLED MessageAsAttack(u)
                  /\ ~ENABLED MessageAsAction(u)
                  /\ ~ENABLED MessageAsName(u)
                  /\ ~ENABLED HandleMessageIdle(u)
             ELSE ~ENABLED MessageAsAttack(u))
    /\ [][\A u \in Users :
             /\ ActionStep(u) => active_battles[u] = None
             /\ MessageAttackStep(u)
                => /\ active_battles[u] # None
                   /\ inventory'[u] = inventory[u]
                   /\ characters'[u].location_state
                          = characters[u].location_state
                   /\ characters'[u].current_location
                          = characters[u].current_location]_vars

\* a message was resolved as an attack turn in a scene that offers a
\* purchase, with gold enough to pay for it, and the battle goes on
C25_Witness ==
    /\ last.kind = "attack"
    /\ last.via = "message"
    /\ ~last.raised
    /\ active_battles[last.user] # None
    /\ characters[last.user].location_state = TXT_BUY
    /\ characters[last.user].gold >= 50

====
